---- MODULE Spec2Model ----
(***************************************************************************)
(* Model of road_highlighter: generate_map.py (config loading, network     *)
(* acquisition, edge classification, rendering) and prepare_map.py         *)
(* (ensure_place_bbox).                                                    *)
(*                                                                         *)
(* Three specifications share the variables:                               *)
(*   Spec      one run of generate_map.main                                *)
(*   SpecCfg   generate_map.load_config on arbitrary `output` values,      *)
(*             followed by the renderer's write                            *)
(*   SpecBbox  one call of prepare_map.ensure_place_bbox                   *)
(***************************************************************************)
EXTENDS Integers, Sequences, FiniteSets, TLC

VARIABLES
    pc,            \* position of the run / call
    cfg,           \* the configuration mapping (yaml.safe_load result)
    output_path,   \* main: output_path / config['output'] after load_config
    G,             \* main: the graph variable G (None or a graph)
    data_source,   \* main: data_source
    pbf_status,    \* history: what happened to the PBF strategy
    attempts,      \* history: loader functions called, in call order
    error,         \* exception that ended the run ("" when none)
    target_edges,  \* main: target_edges (None or a row subset)
    bg_edges,      \* main: bg_edges (None or a row subset)
    drawn,         \* plot_network: the .plot() calls made, in call order
    legend,        \* plot_network: legend_elements
    written,       \* file written by plt.savefig (None when nothing written)
    e_place,       \* ensure_place_bbox: argument place
    e_bbox,        \* ensure_place_bbox: argument bbox
    e_result,      \* ensure_place_bbox: returned tuple (None when none)
    e_requests     \* ensure_place_bbox: geocoding requests made

vars == <<pc, cfg, output_path, G, data_source, pbf_status, attempts, error,
          target_edges, bg_edges, drawn, legend, written,
          e_place, e_bbox, e_result, e_requests>>

mainVars == <<G, data_source, pbf_status, attempts, target_edges, bg_edges,
              drawn, legend>>
bboxVars == <<e_place, e_bbox, e_result, e_requests>>

-----------------------------------------------------------------------------
(* Bounds *)

MaxEdges == 2      \* rows of the edge table
MaxRoads == 2      \* length of the target_roads list
MaxSegs  == 3      \* segments of the configured output path
MaxCoord == 2      \* coordinates range over 0..MaxCoord

-----------------------------------------------------------------------------
(* Python optional values: None or a value *)

None == [some |-> FALSE]
Some(v) == [some |-> TRUE, v |-> v]

\* all sequences over S of length at most n
SeqsUpTo(S, n) == UNION {[1..k -> S] : k \in 0..n}

-----------------------------------------------------------------------------
(* Paths: os.path.join, os.path.normpath, os.path.dirname                  *)
(* A path is [abs, segs]; the empty string is the relative path with no    *)
(* segments.                                                               *)

MkPath(a, s) == [abs |-> a, segs |-> s]

EmptyPath == MkPath(FALSE, <<>>)

\* os.path.join(a, b): an absolute b discards a
Join(a, b) == IF b.abs THEN b ELSE MkPath(a.abs, a.segs \o b.segs)

RECURSIVE NormSegs(_, _, _)
NormSegs(segs, acc, abs) ==
    IF segs = <<>> THEN acc
    ELSE LET s == Head(segs) IN
         IF s = ".."
         THEN IF Len(acc) > 0 /\ acc[Len(acc)] # ".."
              THEN NormSegs(Tail(segs), SubSeq(acc, 1, Len(acc) - 1), abs)
              ELSE IF abs
                   THEN NormSegs(Tail(segs), acc, abs)
                   ELSE NormSegs(Tail(segs), Append(acc, s), abs)
         ELSE NormSegs(Tail(segs), Append(acc, s), abs)

\* os.path.normpath(p): collapses ".." segments
Normpath(p) == MkPath(p.abs, NormSegs(p.segs, <<>>, p.abs))

\* os.path.dirname(p): everything before the last segment
Dirname(p) ==
    IF Len(p.segs) = 0 THEN p
    ELSE MkPath(p.abs, SubSeq(p.segs, 1, Len(p.segs) - 1))

\* the string is "" (os.makedirs("") raises FileNotFoundError)
IsEmptyString(p) == ~p.abs /\ p.segs = <<>>

\* p lies in the tree rooted at directory d
Under(p, d) ==
    /\ p.abs = d.abs
    /\ Len(p.segs) >= Len(d.segs)
    /\ SubSeq(p.segs, 1, Len(d.segs)) = d.segs
    /\ \A i \in 1..Len(p.segs) : p.segs[i] # ".."

\* os.path.dirname(os.path.abspath(config_path))
ConfigDir == MkPath(TRUE, <<"proj">>)

\* os.path.join(config_dir, 'data', 'outputs')
OutputDir == Join(Join(ConfigDir, MkPath(FALSE, <<"data">>)),
                  MkPath(FALSE, <<"outputs">>))

DefaultOutput == MkPath(FALSE, <<"road_network.svg">>)

\* truthiness of an optional path string: config.get('output')
TruthyPath(o) == o.some /\ ~IsEmptyString(o.v)

\* load_config, the `output` field: rewritten only when truthy
LoadConfigOutput(o) ==
    IF TruthyPath(o) THEN Some(Normpath(Join(OutputDir, o.v))) ELSE o

\* config.get("output", "road_network.svg")
GetOutput(o) == IF o.some THEN o.v ELSE DefaultOutput

-----------------------------------------------------------------------------
(* Strings of the edge table.  A string is a sequence of tokens, so that   *)
(* the OSM multi-value form "G7;S301" is a different string from "G7".     *)
(* NaN (no value in the row) is the empty sequence.                        *)

Str(c) == <<c>>
NaN == <<>>

\* the route codes a ref string carries
CodesOf(v) == {v[i] : i \in DOMAIN v} \ {";"}

RoadCodes == {"G7", "G575"}          \* codes the config may list as targets
RefValues == {NaN, Str("G7"), Str("G575"), Str("S301"), <<"G7", ";", "S301">>}
HighwayValues == {"trunk", "primary", "residential"}

\* allowed_highways in main
allowed_highways ==
    {"motorway", "trunk", "primary", "secondary", "tertiary", "unclassified"}

\* the default of config.get("target_colors", {...}) in plot_network
DefaultTargetColors ==
    [c \in {"G575", "G331", "G312", "S656", "S235"} |->
        CASE c = "G575" -> "#e74c3c"
          [] c = "G331" -> "#3498db"
          [] c = "G312" -> "#2ecc71"
          [] c = "S656" -> "#e67e22"
          [] c = "S235" -> "#9b59b6"]

\* the default of config.get("bg_road_color", "#bdc3c7")
DefaultBgColor == "#bdc3c7"

\* target_colors.get(ref, "#333")
NeutralColor == "#333"

-----------------------------------------------------------------------------
(* Edge tables: ox.graph_to_gdfs(G, nodes=False).  cols is the set of      *)
(* attribute columns present; a row of a table without a column holds the  *)
(* placeholder NaN / "" for it, which the code never reads.                *)

Rows(cols) ==
    [ref     : IF "ref" \in cols THEN RefValues ELSE {NaN},
     highway : IF "highway" \in cols THEN HighwayValues ELSE {""}]

Tables ==
    UNION {{[cols |-> c, edges |-> e] : e \in SeqsUpTo(Rows(c), MaxEdges)} :
           c \in SUBSET {"ref", "highway"}}

RowIds(t) == DOMAIN t.edges

\* Series.isin(values): the whole string equals one of the values
Isin(v, refs) == v \in {Str(c) : c \in refs}

\* variant of BgEdges: the ~isin(target_refs) conjunct of bg_mask is dropped
BgEdges_NoRefMask(t, target_refs) ==
    IF "highway" \in t.cols
    THEN Some({i \in RowIds(t) : t.edges[i].highway \in allowed_highways})
    ELSE None

\* variant of BgEdges: the highway.isin(allowed_highways) conjunct is dropped
BgEdges_NoHighwayFilter(t, target_refs) ==
    IF "highway" \in t.cols
    THEN IF "ref" \in t.cols
         THEN Some({i \in RowIds(t) : ~Isin(t.edges[i].ref, target_refs)})
         ELSE Some(RowIds(t))
    ELSE None

\* variant of BgEdges: a table without a highway column yields all edges
BgEdges_AllEdgesFallback(t, target_refs) ==
    IF "highway" \in t.cols
    THEN IF "ref" \in t.cols
         THEN Some({i \in RowIds(t) :
                      /\ ~Isin(t.edges[i].ref, target_refs)
                      /\ t.edges[i].highway \in allowed_highways})
         ELSE Some({i \in RowIds(t) : t.edges[i].highway \in allowed_highways})
    ELSE Some(RowIds(t))

\* main, lines 196-206: bg_edges
BgEdges(t, target_refs) ==
    IF "highway" \in t.cols
    THEN IF "ref" \in t.cols
         THEN Some({i \in RowIds(t) :
                      /\ ~Isin(t.edges[i].ref, target_refs)
                      /\ t.edges[i].highway \in allowed_highways})
         ELSE Some({i \in RowIds(t) : t.edges[i].highway \in allowed_highways})
    ELSE None

\* main, lines 207-213: target_edges
TargetEdges(t, target_refs) ==
    IF "ref" \in t.cols
    THEN Some({i \in RowIds(t) : Isin(t.edges[i].ref, target_refs)})
    ELSE None

-----------------------------------------------------------------------------
(* plot_network *)

\* bg_edges is not None and len(bg_edges) > 0
NonEmpty(o) == o.some /\ o.v # {}

\* config.get("target_colors", {...})
TargetColors(c) ==
    IF c.target_colors.some THEN c.target_colors.v ELSE DefaultTargetColors

\* target_colors.get(ref, "#333")
ColorOf(tc, ref) == IF ref \in DOMAIN tc THEN tc[ref] ELSE NeutralColor

\* config.get("target_roads", [])
TargetRoads(c) == IF c.target_roads.some THEN c.target_roads.v ELSE <<>>

\* target_edges[target_edges["ref"] == ref]
RowsWithRef(t, te, ref) == {i \in te.v : t.edges[i].ref = Str(ref)}

\* target_edges is not None and "ref" in columns and ref in ["ref"].values
RefInValues(t, te, ref) ==
    /\ te.some
    /\ "ref" \in t.cols
    /\ RowsWithRef(t, te, ref) # {}

\* lines 118-131: the plot calls, background first
DrawnLayers(t, te, bg, c) ==
    LET roads == SelectSeq(TargetRoads(c), LAMBDA r : RefInValues(t, te, r))
    IN  (IF NonEmpty(bg)
         THEN <<[kind |-> "bg", ref |-> "", color |-> DefaultBgColor,
                 zorder |-> 1, rows |-> bg.v]>>
         ELSE <<>>)
        \o [k \in 1..Len(roads) |->
              [kind |-> "target", ref |-> roads[k],
               color |-> ColorOf(TargetColors(c), roads[k]),
               zorder |-> 2, rows |-> RowsWithRef(t, te, roads[k])]]

\* variant of LegendElements: the len(bg_edges) > 0 test is dropped
LegendElements_NoLenCheck(t, te, bg, c) ==
    LET roads == SelectSeq(TargetRoads(c), LAMBDA r : RefInValues(t, te, r))
    IN  (IF bg.some
         THEN <<[kind |-> "bg", ref |-> "", color |-> DefaultBgColor]>>
         ELSE <<>>)
        \o (IF NonEmpty(te)
            THEN [k \in 1..Len(roads) |->
                    [kind |-> "target", ref |-> roads[k],
                     color |-> ColorOf(TargetColors(c), roads[k])]]
            ELSE <<>>)

\* lines 134-143: legend_elements
LegendElements(t, te, bg, c) ==
    LET roads == SelectSeq(TargetRoads(c), LAMBDA r : RefInValues(t, te, r))
    IN  (IF NonEmpty(bg)
         THEN <<[kind |-> "bg", ref |-> "", color |-> DefaultBgColor]>>
         ELSE <<>>)
        \o (IF NonEmpty(te)
            THEN [k \in 1..Len(roads) |->
                    [kind |-> "target", ref |-> roads[k],
                     color |-> ColorOf(TargetColors(c), roads[k])]]
            ELSE <<>>)

-----------------------------------------------------------------------------
(* generate_map.main: configurations                                       *)

\* truthiness of an optional list or string (not x)
Truthy(o) == o.some /\ o.v # <<>>

PbfFile == MkPath(FALSE, <<"map", "china.osm.pbf">>)
XmlFile == MkPath(FALSE, <<"map", "hami.osm">>)
Box == <<0, 0, 1, 1>>

Configs ==
    [output       : {None, Some(MkPath(FALSE, <<"map.svg">>))},
     bbox         : {None, Some(<<>>), Some(Box)},
     target_roads : {None} \cup {Some(r) : r \in SeqsUpTo(RoadCodes, MaxRoads)},
     place        : {None, Some(<<"Hami">>)},
     pbf_path     : {None, Some(PbfFile)},
     osm_xml_path : {None, Some(XmlFile)},
     target_colors: {None, Some([c \in {"G7"} |-> "#ff0000"])}]

\* load_config, lines 31-34: a truthy path is resolved against config_dir
ResolvePath(o) ==
    IF TruthyPath(o) THEN Some(Normpath(Join(ConfigDir, o.v))) ELSE o

\* load_config
LoadConfig(c) ==
    [c EXCEPT !.pbf_path = ResolvePath(c.pbf_path),
              !.osm_xml_path = ResolvePath(c.osm_xml_path),
              !.output = LoadConfigOutput(c.output)]

\* fetch_network_online(place, bbox); reply is what the OSMnx call gives:
\* a graph, or None when it raises.  Every exception is caught inside and
\* turned into a None return.
FetchNetworkOnline(place, bbox, reply) ==
    IF Truthy(bbox) THEN reply
    ELSE IF Truthy(place) THEN reply
    ELSE None

Init ==
    /\ pc = "load_config"
    /\ cfg \in Configs
    /\ output_path = EmptyPath
    /\ G = None
    /\ data_source = ""
    /\ pbf_status = "untried"
    /\ attempts = <<>>
    /\ error = ""
    /\ target_edges = None
    /\ bg_edges = None
    /\ drawn = <<>>
    /\ legend = <<>>
    /\ written = None
    /\ e_place = None
    /\ e_bbox = None
    /\ e_result = None
    /\ e_requests = 0

\* lines 159-160
MainLoadConfig ==
    /\ pc = "load_config"
    /\ cfg' = LoadConfig(cfg)
    /\ output_path' = GetOutput(cfg'.output)
    /\ pc' = "makedirs"
    /\ UNCHANGED <<mainVars, error, written, bboxVars>>

\* line 161: os.makedirs(os.path.dirname(output_path), exist_ok=True)
MainMakeDirs ==
    /\ pc = "makedirs"
    /\ IF IsEmptyString(Dirname(output_path))
       THEN pc' = "failed" /\ error' = "FileNotFoundError"
       ELSE pc' = "validate" /\ error' = error
    /\ UNCHANGED <<cfg, output_path, mainVars, written, bboxVars>>

\* lines 162-168
MainValidate ==
    /\ pc = "validate"
    /\ IF ~Truthy(cfg.bbox) \/ ~Truthy(cfg.target_roads)
       THEN pc' = "failed" /\ error' = "ValueError"
       ELSE pc' = "try_pbf" /\ error' = error
    /\ UNCHANGED <<cfg, output_path, mainVars, written, bboxVars>>

\* line 172: pbf_path is not configured
MainPbfNotConfigured ==
    /\ pc = "try_pbf"
    /\ ~TruthyPath(cfg.pbf_path)
    /\ pbf_status' = "unconfigured"
    /\ pc' = "try_online"
    /\ UNCHANGED <<cfg, output_path, G, data_source, attempts, error,
                   target_edges, bg_edges, drawn, legend, written, bboxVars>>

\* lines 173-174: the file does not exist
MainPbfMissing ==
    /\ pc = "try_pbf"
    /\ TruthyPath(cfg.pbf_path)
    /\ pbf_status' = "missing"
    /\ pc' = "try_online"
    /\ UNCHANGED <<cfg, output_path, G, data_source, attempts, error,
                   target_edges, bg_edges, drawn, legend, written, bboxVars>>

\* lines 175-182: load_network_from_pbf_pyrosm raises
MainPbfLoadFails ==
    /\ pc = "try_pbf"
    /\ TruthyPath(cfg.pbf_path)
    /\ attempts' = Append(attempts, "PBF")
    /\ G' = None
    /\ pbf_status' = "failed"
    /\ pc' = "try_online"
    /\ UNCHANGED <<cfg, output_path, data_source, error,
                   target_edges, bg_edges, drawn, legend, written, bboxVars>>

\* lines 175-179: load_network_from_pbf_pyrosm returns a graph
MainPbfLoads ==
    /\ pc = "try_pbf"
    /\ TruthyPath(cfg.pbf_path)
    /\ \E t \in Tables : G' = Some(t)
    /\ attempts' = Append(attempts, "PBF")
    /\ data_source' = "PBF"
    /\ pbf_status' = "loaded"
    /\ pc' = "try_online"
    /\ UNCHANGED <<cfg, output_path, error,
                   target_edges, bg_edges, drawn, legend, written, bboxVars>>

\* line 184: G is not None, the online fetch is skipped
MainOnlineSkip ==
    /\ pc = "try_online"
    /\ G.some
    /\ pc' = "classify"
    /\ UNCHANGED <<cfg, output_path, mainVars, error, written, bboxVars>>

\* variant of MainOnlineFetch: the `if G is None` guard is dropped
MainOnlineFetch_Unguarded ==
    /\ pc = "try_online"
    /\ \E reply \in {None} \cup {Some(t) : t \in Tables} :
          G' = FetchNetworkOnline(cfg.place, cfg.bbox, reply)
    /\ attempts' = Append(attempts, "Online")
    /\ data_source' = "Online"
    /\ pc' = "classify"
    /\ UNCHANGED <<cfg, output_path, pbf_status, error,
                   target_edges, bg_edges, drawn, legend, written, bboxVars>>

\* lines 184-191: G is None, fetch_network_online is called
MainOnlineFetch ==
    /\ pc = "try_online"
    /\ ~G.some
    /\ \E reply \in {None} \cup {Some(t) : t \in Tables} :
          G' = FetchNetworkOnline(cfg.place, cfg.bbox, reply)
    /\ attempts' = Append(attempts, "Online")
    /\ data_source' = "Online"
    /\ pc' = "classify"
    /\ UNCHANGED <<cfg, output_path, pbf_status, error,
                   target_edges, bg_edges, drawn, legend, written, bboxVars>>

\* set(target_roads)
TargetRefs(c) == {c.target_roads.v[i] : i \in DOMAIN c.target_roads.v}

\* line 194 with G = None: ox.graph_to_gdfs(None) raises
MainClassifyNoGraph ==
    /\ pc = "classify"
    /\ ~G.some
    /\ pc' = "failed"
    /\ error' = "AttributeError"
    /\ UNCHANGED <<cfg, output_path, mainVars, written, bboxVars>>

\* lines 194-213
MainClassify ==
    /\ pc = "classify"
    /\ G.some
    /\ bg_edges' = BgEdges(G.v, TargetRefs(cfg))
    /\ target_edges' = TargetEdges(G.v, TargetRefs(cfg))
    /\ pc' = "plot"
    /\ UNCHANGED <<cfg, output_path, G, data_source, pbf_status, attempts,
                   error, drawn, legend, written, bboxVars>>

\* line 215: plot_network(G, target_edges, bg_edges, config)
MainPlot ==
    /\ pc = "plot"
    /\ drawn' = DrawnLayers(G.v, target_edges, bg_edges, cfg)
    /\ legend' = LegendElements(G.v, target_edges, bg_edges, cfg)
    /\ written' = Some(GetOutput(cfg.output))
    /\ pc' = "done"
    /\ UNCHANGED <<cfg, output_path, G, data_source, pbf_status, attempts,
                   error, target_edges, bg_edges, bboxVars>>

Next ==
    \/ MainLoadConfig
    \/ MainMakeDirs
    \/ MainValidate
    \/ MainPbfNotConfigured
    \/ MainPbfMissing
    \/ MainPbfLoadFails
    \/ MainPbfLoads
    \/ MainOnlineSkip
    \/ MainOnlineFetch
    \/ MainClassifyNoGraph
    \/ MainClassify
    \/ MainPlot

Spec == Init /\ [][Next]_vars

-----------------------------------------------------------------------------
(* load_config on arbitrary `output` values, then the renderer's write     *)

Segments == {"..", "sub", "data"}

\* the `output` field: absent, "", or [/]dir/.../map.svg
OutputValues ==
    {None, Some(EmptyPath)} \cup
    {Some(MkPath(a, d \o <<"map.svg">>)) :
        a \in BOOLEAN, d \in SeqsUpTo(Segments, MaxSegs)}

BaseConfig ==
    [output |-> None, bbox |-> Some(Box), target_roads |-> Some(<<"G7">>),
     place |-> None, pbf_path |-> None, osm_xml_path |-> None,
     target_colors |-> None]

InitCfg ==
    /\ pc = "cfg_load"
    /\ \E o \in OutputValues : cfg = [BaseConfig EXCEPT !.output = o]
    /\ output_path = EmptyPath
    /\ G = None
    /\ data_source = ""
    /\ pbf_status = "untried"
    /\ attempts = <<>>
    /\ error = ""
    /\ target_edges = None
    /\ bg_edges = None
    /\ drawn = <<>>
    /\ legend = <<>>
    /\ written = None
    /\ e_place = None
    /\ e_bbox = None
    /\ e_result = None
    /\ e_requests = 0

\* load_config(config_path)
CfgLoadConfig ==
    /\ pc = "cfg_load"
    /\ cfg' = LoadConfig(cfg)
    /\ output_path' = GetOutput(cfg'.output)
    /\ pc' = "cfg_save"
    /\ UNCHANGED <<mainVars, error, written, bboxVars>>

\* plot_network, lines 146-147: os.makedirs("") raises
CfgSaveFails ==
    /\ pc = "cfg_save"
    /\ IsEmptyString(Dirname(GetOutput(cfg.output)))
    /\ error' = "FileNotFoundError"
    /\ pc' = "failed"
    /\ UNCHANGED <<cfg, output_path, mainVars, written, bboxVars>>

\* plot_network, lines 146-148: plt.savefig(output_path)
CfgSave ==
    /\ pc = "cfg_save"
    /\ ~IsEmptyString(Dirname(GetOutput(cfg.output)))
    /\ written' = Some(GetOutput(cfg.output))
    /\ pc' = "cfg_done"
    /\ UNCHANGED <<cfg, output_path, mainVars, error, bboxVars>>

NextCfg == CfgLoadConfig \/ CfgSaveFails \/ CfgSave

SpecCfg == InitCfg /\ [][NextCfg]_vars

-----------------------------------------------------------------------------
(* prepare_map.ensure_place_bbox(place, bbox)                              *)

Coords == 0..MaxCoord

Tuples4 == [1..4 -> Coords]

\* variant of GeocodedBbox: the latitude pair is not reordered
GeocodedBbox_NoLatSwap(b) ==
    LET minx == b[1]
        miny == b[2]
        maxx == b[3]
        maxy == b[4]
        west  == IF minx <= maxx THEN minx ELSE maxx
        east  == IF minx <= maxx THEN maxx ELSE minx
    IN  <<miny, west, maxy, east>>

\* lines 40-44: gdf.total_bounds = (minx, miny, maxx, maxy) reordered to
\* (south, west, north, east)
GeocodedBbox(b) ==
    LET minx == b[1]
        miny == b[2]
        maxx == b[3]
        maxy == b[4]
        south == IF miny <= maxy THEN miny ELSE maxy
        north == IF miny <= maxy THEN maxy ELSE miny
        west  == IF minx <= maxx THEN minx ELSE maxx
        east  == IF minx <= maxx THEN maxx ELSE minx
    IN  <<south, west, north, east>>

InitBbox ==
    /\ pc = "e_call"
    /\ e_place \in {None, Some(<<>>), Some(<<"Hami">>)}
    /\ e_bbox \in {None, Some(<<>>)} \cup {Some(b) : b \in Tuples4}
    /\ e_result = None
    /\ e_requests = 0
    /\ cfg = BaseConfig
    /\ output_path = EmptyPath
    /\ G = None
    /\ data_source = ""
    /\ pbf_status = "untried"
    /\ attempts = <<>>
    /\ error = ""
    /\ target_edges = None
    /\ bg_edges = None
    /\ drawn = <<>>
    /\ legend = <<>>
    /\ written = None

\* lines 34-35: if bbox: return tuple(bbox)
EnsureReturnBbox ==
    /\ pc = "e_call"
    /\ Truthy(e_bbox)
    /\ e_result' = Some(e_bbox.v)
    /\ pc' = "e_done"
    /\ UNCHANGED <<cfg, output_path, mainVars, error, written,
                   e_place, e_bbox, e_requests>>

\* lines 36-39: ox.geocode_to_gdf(place) is called
EnsureGeocodeCall ==
    /\ pc = "e_call"
    /\ ~Truthy(e_bbox)
    /\ Truthy(e_place)
    /\ e_requests' = e_requests + 1
    /\ pc' = "e_geocoding"
    /\ UNCHANGED <<cfg, output_path, mainVars, error, written,
                   e_place, e_bbox, e_result>>

\* lines 40-46: the geocoder answers with bounds
EnsureGeocodeReturn ==
    /\ pc = "e_geocoding"
    /\ \E b \in Tuples4 : e_result' = Some(GeocodedBbox(b))
    /\ pc' = "e_done"
    /\ UNCHANGED <<cfg, output_path, mainVars, error, written,
                   e_place, e_bbox, e_requests>>

\* lines 47-49: the geocoder raises, the exception is re-raised
EnsureGeocodeFails ==
    /\ pc = "e_geocoding"
    /\ error' = "GeocodeError"
    /\ pc' = "e_raised"
    /\ UNCHANGED <<cfg, output_path, mainVars, written, bboxVars>>

\* line 50: raise ValueError
EnsureNoInput ==
    /\ pc = "e_call"
    /\ ~Truthy(e_bbox)
    /\ ~Truthy(e_place)
    /\ error' = "ValueError"
    /\ pc' = "e_raised"
    /\ UNCHANGED <<cfg, output_path, mainVars, written, bboxVars>>

NextBbox ==
    \/ EnsureReturnBbox
    \/ EnsureGeocodeCall
    \/ EnsureGeocodeReturn
    \/ EnsureGeocodeFails
    \/ EnsureNoInput

SpecBbox == InitBbox /\ [][NextBbox]_vars

-----------------------------------------------------------------------------
(* Properties *)

\* row i is in the optional row subset o
InRows(o, i) == o.some /\ i \in o.v

\* the classification has run
Classified == pc \in {"plot", "done"}

\* C1 (as stated): an edge whose highway value is outside the allowed class
\* set is in neither target_edges nor bg_edges, whatever its ref.
C1_ExcludedFromBoth ==
    (Classified /\ "highway" \in G.v.cols) =>
        \A i \in RowIds(G.v) :
            G.v.edges[i].highway \notin allowed_highways =>
                ~InRows(target_edges, i) /\ ~InRows(bg_edges, i)

\* C1 (amended): an edge whose highway value is outside the allowed class set
\* is never in bg_edges, and it is in target_edges exactly when the table has
\* a ref column and the edge's ref equals a configured target code.
C1_ExcludedFromBackground ==
    (Classified /\ "highway" \in G.v.cols) =>
        \A i \in RowIds(G.v) :
            G.v.edges[i].highway \notin allowed_highways =>
                /\ ~InRows(bg_edges, i)
                /\ InRows(target_edges, i) <=>
                     /\ "ref" \in G.v.cols
                     /\ \E c \in TargetRefs(cfg) : G.v.edges[i].ref = Str(c)

\* C1 witness: a residential edge carrying a target code has been classified
\* as a target edge
C1_Witness ==
    /\ Classified
    /\ \E i \in RowIds(G.v) :
          /\ G.v.edges[i].highway = "residential"
          /\ G.v.edges[i].ref = Str("G7")
          /\ "G7" \in TargetRefs(cfg)
          /\ InRows(target_edges, i)

\* C2: target_edges and bg_edges never share an edge row, whichever of the
\* ref and highway columns are present.
C2_Disjoint ==
    G.some => \A i \in RowIds(G.v) :
                 ~(InRows(target_edges, i) /\ InRows(bg_edges, i))

\* C2 witness: both sets are non-empty after classification
C2_Witness ==
    /\ Classified
    /\ NonEmpty(target_edges)
    /\ NonEmpty(bg_edges)

\* C3 (as stated): every run that reaches classification holds a graph; a
\* run without one has ended with the RuntimeError of the loader.
C3_GraphAtClassification ==
    /\ pc = "classify" => G.some
    /\ (pc = "failed" /\ attempts # <<>> /\ ~G.some) => error = "RuntimeError"

C5_WrittenUnderOutputs ==
    written.some => Under(written.v, OutputDir)

\* C6 (as stated): with both columns present an edge is in target_edges iff
\* its ref carries a configured target code (a multi-valued ref counts), and
\* in bg_edges iff its highway is allowed and it is not in target_edges.
C6_TargetIffRefIntersects ==
    (Classified /\ G.v.cols = {"ref", "highway"}) =>
        \A i \in RowIds(G.v) :
            /\ InRows(target_edges, i) <=>
                 CodesOf(G.v.edges[i].ref) \cap TargetRefs(cfg) # {}
            /\ InRows(bg_edges, i) <=>
                 /\ G.v.edges[i].highway \in allowed_highways
                 /\ ~InRows(target_edges, i)

\* C7 (as stated): without a ref column the target set is empty, and without
\* a highway column as well the background set is all edges of the graph.
C7_FallbackToAllEdges ==
    (Classified /\ "ref" \notin G.v.cols /\ G.v.edges # <<>>) =>
        /\ ~NonEmpty(target_edges)
        /\ "highway" \notin G.v.cols => bg_edges = Some(RowIds(G.v))

\* C7 (amended): without a ref column target_edges is None and the run still
\* proceeds to rendering; without a highway column as well bg_edges is None
\* too, so nothing is drawn and the legend is empty.  A run that holds a
\* graph never fails in the classifier or the renderer.
C7_DegradesToNone ==
    /\ (Classified /\ "ref" \notin G.v.cols) =>
          /\ target_edges = None
          /\ "highway" \notin G.v.cols => bg_edges = None
          /\ (pc = "done" /\ "highway" \notin G.v.cols) =>
                (drawn = <<>> /\ legend = <<>>)
    /\ G.some => pc # "failed"

\* C7 witness: a non-empty table with neither column was rendered
C7_Witness ==
    /\ pc = "done"
    /\ G.v.cols = {}
    /\ G.v.edges # <<>>
    /\ written.some

\* the config lacks a usable bbox or target_roads
BadConfig == ~Truthy(cfg.bbox) \/ ~Truthy(cfg.target_roads)

\* C8 (as stated): a run whose config has a missing or empty bbox or
\* target_roads fails with ValueError before any acquisition is attempted.
C8_ConfigErrorFirst ==
    BadConfig =>
        /\ attempts = <<>>
        /\ pbf_status = "untried"
        /\ pc \in {"load_config", "makedirs", "validate", "failed"}
        /\ pc = "failed" => error = "ValueError"

\* the target entries of a sequence of layers or legend entries
TargetPart(seq) == SelectSeq(seq, LAMBDA x : x.kind = "target")

C10_EnsurePlaceBbox ==
    /\ (pc = "e_done" /\ Truthy(e_bbox)) =>
          (e_result = Some(e_bbox.v) /\ e_requests = 0)
    /\ (pc = "e_done" /\ ~Truthy(e_bbox)) =>
          /\ Truthy(e_place)
          /\ e_requests = 1
          /\ e_result.v[1] <= e_result.v[3]
          /\ e_result.v[2] <= e_result.v[4]
    /\ (pc \in {"e_done", "e_raised"} /\ ~Truthy(e_bbox) /\ ~Truthy(e_place)) =>
          (pc = "e_raised" /\ error = "ValueError" /\ e_result = None)
    /\ pc = "e_raised" => e_result = None
    /\ Truthy(e_bbox) => (e_requests = 0 /\ pc # "e_raised")

\* C10 witness: a place was geocoded to a box
C10_Witness ==
    /\ pc = "e_done"
    /\ ~Truthy(e_bbox)
    /\ e_requests = 1
    /\ e_result.v[1] < e_result.v[3]

====
